---- MODULE Spec2Model ----
(***************************************************************************)
(* Model of the Clash routing-rule parser                                  *)
(* (src/plugins.v2/clashruleprovider/clash_rule_parser.py).                 *)
(*                                                                         *)
(* A Python str is a sequence of one-character strings, so that strip,     *)
(* split, upper, startswith and the regular expression of the logic path   *)
(* are computed character by character, as the interpreter computes them.  *)
(* The characters of the model are the printable ASCII characters and the  *)
(* whitespace characters space, \t, \n, \r and \f.                          *)
(***************************************************************************)
EXTENDS Integers, Sequences, FiniteSets, TLC

VARIABLES
    rules,      \* self.rules of the ClashRuleParser the caller holds
    stdout,     \* sys.stdout, which print() writes to: "open" or "closed"
    input,      \* the value the caller passes: a str, a dict or something else
    shape,      \* the pieces the caller put a str together from
    pc,         \* the last call made
    path,       \* the private parser the call went through
    result,     \* the value returned and the diagnostic printed
    rendered,   \* the text the last serialization gave
    batch,      \* the inputs a caller parses one after another
    outcomes,   \* the outcomes that caller has collected so far
    calls,      \* per thread: its input, the call it makes and where it is
    frames,     \* the locals conditions, stack, current of the running scans
    scan_str,   \* conditions_str, the text a single scan runs over
    scan_pos,   \* the number of its characters the for loop has taken
    scan,       \* conditions, stack and current of that scan
    scan_char,  \* char, the character of the last iteration
    scan_before \* conditions, stack and current before the last iteration

\* the variables of the caller of one call, of the caller of a batch, of the
\* threads and of the single scan
callVars == <<input, shape, pc, path, result, rendered>>
batchVars == <<batch, outcomes>>
threadVars == <<calls, frames>>
scanVars == <<scan_str, scan_pos, scan, scan_char, scan_before>>

vars == <<rules, stdout, callVars, batchVars, threadVars, scanVars>>

(***************************************************************************)
(* str primitives                                                          *)
(***************************************************************************)
LowerCase == <<"a","b","c","d","e","f","g","h","i","j","k","l","m",
               "n","o","p","q","r","s","t","u","v","w","x","y","z">>

UpperCase == <<"A","B","C","D","E","F","G","H","I","J","K","L","M",
               "N","O","P","Q","R","S","T","U","V","W","X","Y","Z">>

\* str.isspace for one character, which is also \s of the re module
IsSpace(c) == c \in {" ", "\t", "\n", "\r", "\f"}

\* str.upper for one character
UpperChar(c) ==
    IF \E i \in 1..26 : LowerCase[i] = c
    THEN UpperCase[CHOOSE i \in 1..26 : LowerCase[i] = c]
    ELSE c

RECURSIVE upper(_)
\* str.upper()
upper(s) == IF s = <<>> THEN <<>> ELSE <<UpperChar(Head(s))>> \o upper(Tail(s))

\* s[a-1:b] for 1-based a, b; empty when a > b
Slice(s, a, b) == IF a > b THEN <<>> ELSE SubSeq(s, a, b)

\* str.strip()
strip(s) ==
    LET keep == {i \in 1..Len(s) : ~IsSpace(s[i])}
    IN  IF keep = {} THEN <<>>
        ELSE Slice(s, CHOOSE i \in keep : \A j \in keep : i <= j,
                      CHOOSE i \in keep : \A j \in keep : j <= i)

\* str.startswith(p)
startswith(s, p) == Len(s) >= Len(p) /\ SubSeq(s, 1, Len(p)) = p

\* positions of the commas of s, in increasing order
RECURSIVE CommasFrom(_, _)
CommasFrom(s, i) ==
    IF i > Len(s) THEN <<>>
    ELSE IF s[i] = "," THEN <<i>> \o CommasFrom(s, i + 1)
    ELSE CommasFrom(s, i + 1)

\* str.split(','): the segments between the commas, empty ones included
split(s) ==
    LET cs == CommasFrom(s, 1)
        n  == Len(cs)
        seg(k) == Slice(s, IF k = 1 THEN 1 ELSE cs[k - 1] + 1,
                           IF k = n + 1 THEN Len(s) ELSE cs[k] - 1)
        RECURSIVE From(_)
        From(k) == IF k > n + 1 THEN <<>> ELSE <<seg(k)>> \o From(k + 1)
    IN  From(1)

\* str.split(',', 1): at most one split, at the first comma
split1(s) ==
    LET cs == CommasFrom(s, 1)
    IN  IF cs = <<>> THEN <<s>>
        ELSE <<Slice(s, 1, cs[1] - 1), Slice(s, cs[1] + 1, Len(s))>>

RECURSIVE StripNonEmpty(_)
\* [p.strip() for p in segs if p.strip()]
StripNonEmpty(segs) ==
    IF segs = <<>> THEN <<>>
    ELSE LET p == strip(Head(segs))
         IN  IF p = <<>> THEN StripNonEmpty(Tail(segs))
             ELSE <<p>> \o StripNonEmpty(Tail(segs))

RECURSIVE Join(_, _)
\* sep.join(parts)
Join(sep, parts) ==
    IF parts = <<>> THEN <<>>
    ELSE IF Len(parts) = 1 THEN parts[1]
    ELSE parts[1] \o sep \o Join(sep, Tail(parts))

(***************************************************************************)
(* The enumerations: the values of RuleType and of Action                  *)
(***************************************************************************)
RT_AND == <<"A","N","D">>
RT_OR == <<"O","R">>
RT_NOT == <<"N","O","T">>
RT_MATCH == <<"M","A","T","C","H">>

RuleType == {
    <<"D","O","M","A","I","N">>,
    <<"D","O","M","A","I","N","-","S","U","F","F","I","X">>,
    <<"D","O","M","A","I","N","-","K","E","Y","W","O","R","D">>,
    <<"D","O","M","A","I","N","-","R","E","G","E","X">>,
    <<"G","E","O","S","I","T","E">>,
    <<"I","P","-","C","I","D","R">>,
    <<"I","P","-","C","I","D","R","6">>,
    <<"I","P","-","S","U","F","F","I","X">>,
    <<"I","P","-","A","S","N">>,
    <<"G","E","O","I","P">>,
    <<"S","R","C","-","G","E","O","I","P">>,
    <<"S","R","C","-","I","P","-","A","S","N">>,
    <<"S","R","C","-","I","P","-","C","I","D","R">>,
    <<"S","R","C","-","I","P","-","S","U","F","F","I","X">>,
    <<"D","S","T","-","P","O","R","T">>,
    <<"S","R","C","-","P","O","R","T">>,
    <<"I","N","-","P","O","R","T">>,
    <<"I","N","-","T","Y","P","E">>,
    <<"I","N","-","U","S","E","R">>,
    <<"I","N","-","N","A","M","E">>,
    <<"P","R","O","C","E","S","S","-","P","A","T","H">>,
    <<"P","R","O","C","E","S","S","-","P","A","T","H","-","R","E","G","E","X">>,
    <<"P","R","O","C","E","S","S","-","N","A","M","E">>,
    <<"P","R","O","C","E","S","S","-","N","A","M","E","-","R","E","G","E","X">>,
    <<"U","I","D">>,
    <<"N","E","T","W","O","R","K">>,
    <<"D","S","C","P">>,
    <<"R","U","L","E","-","S","E","T">>,
    RT_AND, RT_OR, RT_NOT,
    <<"S","U","B","-","R","U","L","E">>,
    RT_MATCH }

Action == {
    <<"D","I","R","E","C","T">>,
    <<"R","E","J","E","C","T">>,
    <<"R","E","J","E","C","T","-","D","R","O","P">>,
    <<"P","A","S","S">>,
    <<"C","O","M","P","A","T","I","B","L","E">>}

(***************************************************************************)
(* The rule values.  An action is a member of the Action enumeration       *)
(* (enum = TRUE) or a plain str, the name of a proxy group (enum = FALSE). *)
(***************************************************************************)
ClashRule(rule_type, payload, action, additional_params, raw_rule) ==
    [variant |-> "ClashRule", rule_type |-> rule_type, payload |-> payload,
     action |-> action, additional_params |-> additional_params,
     raw_rule |-> raw_rule]

LogicRule(logic_type, conditions, action, raw_rule) ==
    [variant |-> "LogicRule", logic_type |-> logic_type,
     conditions |-> conditions, action |-> action, raw_rule |-> raw_rule]

MatchRule(action, raw_rule) ==
    [variant |-> "MatchRule", action |-> action, raw_rule |-> raw_rule,
     rule_type |-> RT_MATCH]

\* the value None
None == [variant |-> "None"]

\* the AttributeError of .upper() on a value that is no str
AttributeError ==
    [variant |-> "AttributeError",
     what |-> "object has no attribute 'upper'", token |-> <<>>]

\* the exception classes a call of the parser can raise
Exceptions == {"ValueError", "AttributeError"}

\* a raised ValueError: which raise statement, and the token in its message
ValueError(what, token) ==
    [variant |-> "ValueError", what |-> what, token |-> token]

\* the ValueError of print() on a closed sys.stdout
ClosedFile == ValueError("I/O operation on closed file", <<>>)

\* the next print(...) raises
PrintRaises == stdout # "open"

\* print(...); return None
PrintNone == IF PrintRaises THEN ClosedFile ELSE None

IsRule(v) == v.variant \in {"ClashRule", "LogicRule", "MatchRule"}

\* try: Action(action.upper()) except ValueError: action
ResolveAction(action) ==
    IF upper(action) \in Action
    THEN [enum |-> TRUE, value |-> upper(action)]
    ELSE [enum |-> FALSE, value |-> action]

(***************************************************************************)
(* ClashRuleParser: the four private parsers.  Each returns a rule, None   *)
(* or a raised ValueError.                                                 *)
(***************************************************************************)

\* parts = [p.strip() for p in line.split(',') if p.strip()]
Parts(line) == StripNonEmpty(split(line))

_parse_match_rule(line) ==
    LET parts == Parts(line)
    IN  IF Len(parts) # 2
        THEN ValueError("Invalid MATCH rule format", line)
        ELSE MatchRule(ResolveAction(parts[2]), line)

\* _parse_regular_rule with additional_params = parts[4:]
_parse_regular_rule_slice(line) ==
    LET parts == Parts(line)
    IN  IF Len(parts) < 3
        THEN ValueError("Invalid rule format (needs at least 3 parts)", line)
        ELSE IF upper(parts[1]) \notin RuleType
        THEN ValueError("Unknown rule type", upper(parts[1]))
        ELSE ClashRule(upper(parts[1]), parts[2], ResolveAction(parts[3]),
                       SubSeq(parts, 5, Len(parts)), line)

\* _parse_regular_rule that keeps a kind it does not know
_parse_regular_rule_any_kind(line) ==
    LET parts == Parts(line)
    IN  IF Len(parts) < 3
        THEN ValueError("Invalid rule format (needs at least 3 parts)", line)
        ELSE ClashRule(upper(parts[1]), parts[2], ResolveAction(parts[3]),
                       SubSeq(parts, 4, Len(parts)), line)

_parse_regular_rule(line) ==
    LET parts == Parts(line)
    IN  IF Len(parts) < 3
        THEN ValueError("Invalid rule format (needs at least 3 parts)", line)
        ELSE LET rule_type_str == upper(parts[1])
                 payload == parts[2]
                 action == parts[3]
                 additional_params == IF Len(parts) > 3
                                      THEN SubSeq(parts, 4, Len(parts))
                                      ELSE <<>>
             IN  IF rule_type_str \notin RuleType
                 THEN ValueError("Unknown rule type", rule_type_str)
                 ELSE ClashRule(rule_type_str, payload, ResolveAction(action),
                                additional_params, line)

\* _parse_single_condition with RuleType(rule_type_str), without upper()
_parse_single_condition_no_upper(condition_str) ==
    LET parts == StripNonEmpty(split1(condition_str))
    IN  IF Len(parts) # 2 THEN PrintNone
        ELSE IF parts[1] \notin RuleType THEN PrintNone
        ELSE ClashRule(parts[1], parts[2],
                       [enum |-> FALSE, value |-> <<>>], <<>>, condition_str)

_parse_single_condition(condition_str) ==
    LET parts == StripNonEmpty(split1(condition_str))
    IN  IF Len(parts) # 2 THEN PrintNone
        ELSE IF upper(parts[1]) \notin RuleType THEN PrintNone
        ELSE ClashRule(upper(parts[1]), parts[2],
                       [enum |-> FALSE, value |-> <<>>], <<>>, condition_str)

\* The state of the scan of _parse_logic_conditions: the conditions found,
\* the depth of the stack (it only ever holds '(') and the buffer current;
\* raised when an exception has ended the for loop.
ScanInit ==
    [conditions |-> <<>>, stack |-> 0, current |-> <<>>, raised |-> FALSE]

\* ScanStep without current = "" after a group is closed
ScanStep_keep_buffer(st, char) ==
    IF char = "("
    THEN [st EXCEPT !.current = IF st.stack > 0 THEN @ \o <<char>> ELSE @,
                    !.stack = @ + 1]
    ELSE IF char = ")"
    THEN IF st.stack > 0
         THEN IF st.stack - 1 = 0
              THEN LET rule == _parse_single_condition(st.current)
                   IN  IF rule.variant \in Exceptions
                       THEN [st EXCEPT !.stack = 0, !.raised = TRUE]
                       ELSE [st EXCEPT !.conditions = IF IsRule(rule)
                                                      THEN Append(@, rule)
                                                      ELSE @,
                                       !.stack = 0]
              ELSE [st EXCEPT !.stack = @ - 1, !.current = @ \o <<char>>]
         ELSE IF PrintRaises THEN [st EXCEPT !.raised = TRUE] ELSE st
    ELSE IF st.stack > 0
         THEN [st EXCEPT !.current = @ \o <<char>>]
         ELSE st

\* One iteration of the for loop, on the character char.  A print() that
\* raises in _parse_single_condition is caught at line 300, the print() of
\* that handler raises too, and the exception ends the loop; so does the
\* print() on a ')' met with an empty stack.
ScanStep(st, char) ==
    IF char = "("
    THEN [st EXCEPT !.current = IF st.stack > 0 THEN @ \o <<char>> ELSE @,
                    !.stack = @ + 1]
    ELSE IF char = ")"
    THEN IF st.stack > 0
         THEN IF st.stack - 1 = 0
              THEN LET rule == _parse_single_condition(st.current)
                   IN  IF rule.variant \in Exceptions
                       THEN [st EXCEPT !.stack = 0, !.raised = TRUE]
                       ELSE [conditions |-> IF IsRule(rule)
                                            THEN Append(st.conditions, rule)
                                            ELSE st.conditions,
                             stack |-> 0,
                             current |-> <<>>,
                             raised |-> FALSE]
              ELSE [st EXCEPT !.stack = @ - 1, !.current = @ \o <<char>>]
         ELSE IF PrintRaises THEN [st EXCEPT !.raised = TRUE] ELSE st
    ELSE IF st.stack > 0
         THEN [st EXCEPT !.current = @ \o <<char>>]
         ELSE st

RECURSIVE ScanFrom(_, _, _)
ScanFrom(st, s, i) ==
    IF i > Len(s) \/ st.raised THEN st
    ELSE ScanFrom(ScanStep(st, s[i]), s, i + 1)

\* the list returned, or the exception that has left the for loop
_parse_logic_conditions(conditions_str) ==
    LET st == ScanFrom(ScanInit, conditions_str, 1)
    IN  IF st.raised THEN ClosedFile ELSE st.conditions

\* re.match(r'^(AND|OR|NOT),\s*\((.+)\)\s*,\s*([^,]+)$', s): the three groups,
\* or ok = FALSE.  The comma before group 3 is the last comma of s, the ')'
\* before it is the last character before that comma that is not whitespace,
\* and the '(' is the first character after "KIND," that is not whitespace.
\* Group 2 is not empty and holds no newline ('.' matches none).  Group 3
\* runs to the end of s from the first character after the comma that is
\* not whitespace, or is the last character of s when only whitespace
\* follows the comma (\s* gives one character back).
LogicMatch(s) ==
    LET kinds == {k \in {RT_AND, RT_OR, RT_NOT} : startswith(s, k \o <<",">>)}
        nomatch == [ok |-> FALSE, g1 |-> <<>>, g2 |-> <<>>, g3 |-> <<>>]
    IN  IF kinds = {} THEN nomatch
        ELSE
        LET kind == CHOOSE k \in kinds : TRUE
            after == {i \in (Len(kind) + 2)..Len(s) : ~IsSpace(s[i])}
            open == IF after = {} THEN 0
                    ELSE CHOOSE i \in after : \A j \in after : i <= j
            commas == CommasFrom(s, 1)
            comma == commas[Len(commas)]
            before == {i \in 1..(comma - 1) : ~IsSpace(s[i])}
            close == IF before = {} THEN 0
                     ELSE CHOOSE i \in before : \A j \in before : j <= i
            rest == {i \in (comma + 1)..Len(s) : ~IsSpace(s[i])}
        IN  IF /\ open # 0
               /\ s[open] = "("
               /\ close # 0
               /\ s[close] = ")"
               /\ close >= open + 2
               /\ \A i \in (open + 1)..(close - 1) : s[i] # "\n"
               /\ comma < Len(s)
            THEN [ok |-> TRUE, g1 |-> kind,
                  g2 |-> Slice(s, open + 1, close - 1),
                  g3 |-> IF rest = {} THEN <<s[Len(s)]>>
                         ELSE Slice(s, CHOOSE i \in rest : \A j \in rest : i <= j,
                                    Len(s))]
            ELSE nomatch

_parse_logic_rule(line) ==
    LET match == LogicMatch(strip(line))
    IN  IF ~match.ok
        THEN ValueError("Invalid logic rule format", line)
        ELSE LET logic_type_str == upper(match.g1)
                 conditions_str == strip(match.g2)
                 action == strip(match.g3)
             IN  IF ScanFrom(ScanInit, conditions_str, 1).raised
                 THEN ValueError("Invalid logic rule", line)
                 ELSE LogicRule(logic_type_str,
                                _parse_logic_conditions(conditions_str),
                                ResolveAction(action), line)

(***************************************************************************)
(* ClashRuleParser: the two public entry points.  Their outcome is the     *)
(* value returned (a rule or None) or the exception that has left the      *)
(* call, and the diagnostic: the last message the entry point has handed   *)
(* to print (what = "" when it has handed none).                           *)
(***************************************************************************)
Outcome(value, what, token) ==
    [value |-> value, diag |-> [what |-> what, token |-> token]]

\* print(...); return None outside the try blocks and in the except
\* clauses, o being the outcome when the print succeeds: on a closed
\* sys.stdout the message of o is handed to print, print raises and the
\* exception leaves the call.
Printed(o) == IF PrintRaises THEN [o EXCEPT !.value = ClosedFile] ELSE o

\* a call inside try ... except Exception: print(...); return None
Caught(r) ==
    IF r.variant \in Exceptions THEN Printed(Outcome(None, r.what, r.token))
    ELSE Outcome(r, "", <<>>)

\* print(...); return None inside the try block of parse_rule_dict: the
\* exception of a print that raises is caught by the except clause
PrintedInTry(o) == IF PrintRaises THEN Caught(ClosedFile) ELSE o

\* Route with line.startswith('MATCH,'), without upper()
Route_case_sensitive(line) ==
    IF \E k \in {RT_AND, RT_OR, RT_NOT} : startswith(line, k \o <<",">>)
    THEN "logic"
    ELSE IF startswith(line, RT_MATCH \o <<",">>) THEN "match"
    ELSE "regular"

\* the branch parse_rule_line takes on a stripped, non-empty line
Route(line) ==
    IF \E k \in {RT_AND, RT_OR, RT_NOT} : startswith(line, k \o <<",">>)
    THEN "logic"
    ELSE IF startswith(upper(line), RT_MATCH \o <<",">>) THEN "match"
    ELSE "regular"

parse_rule_line(in) ==
    IF in.form # "str" THEN Printed(Outcome(None, "Expected string", <<>>))
    ELSE LET line == strip(in.text)
         IN  IF line = <<>> THEN Outcome(None, "", <<>>)
             ELSE IF Route(line) = "logic" THEN Caught(_parse_logic_rule(line))
             ELSE IF Route(line) = "match" THEN Caught(_parse_match_rule(line))
             ELSE Caught(_parse_regular_rule(line))

RECURSIVE ConditionsStr(_)
\* the loop that builds conditions_str from the entries of "conditions"
ConditionsStr(conditions) ==
    IF conditions = <<>> THEN <<>>
    ELSE LET cond == Head(conditions)
             piece == IF cond.form = "dict"
                      THEN IF cond.type # <<>> /\ cond.payload # <<>>
                           THEN <<"(">> \o cond.type \o <<",">> \o cond.payload
                                \o <<")">>
                           ELSE <<>>
                      ELSE IF cond.form = "str" THEN cond.text
                      ELSE <<>>
         IN  piece \o ConditionsStr(Tail(conditions))

\* the text line parse_rule_dict builds from a dict, <<>> where it builds none
RawRule(in) ==
    LET rule_type == upper(in.type)
        additional_params == IF in.params_form = "list"
                             THEN in.additional_params ELSE <<>>
    IN  IF rule_type \in {RT_AND, RT_OR, RT_NOT}
        THEN rule_type \o <<",", "(">> \o ConditionsStr(in.conditions)
             \o <<")", ",">> \o in.action
        ELSE IF rule_type = RT_MATCH
        THEN RT_MATCH \o <<",">> \o in.action
        ELSE rule_type \o <<",">> \o in.payload \o <<",">> \o in.action
             \o (IF additional_params # <<>>
                 THEN <<",">> \o Join(<<",">>, additional_params)
                 ELSE <<>>)

parse_rule_dict(in) ==
    IF in.form = "str" THEN parse_rule_line(in)
    ELSE IF in.form # "dict" THEN Printed(Outcome(None, "Expected dict", <<>>))
    ELSE IF in.type_form # "str" THEN Caught(AttributeError)
    ELSE LET rule_type == upper(in.type)
             action == in.action
         IN  IF rule_type = <<>>
             THEN PrintedInTry(Outcome(None, "Missing 'type' in rule dict",
                                       <<>>))
             ELSE IF rule_type \in {RT_AND, RT_OR, RT_NOT}
             THEN IF in.conditions_form # "list"
                  THEN PrintedInTry(Outcome(None,
                                            "Expected list of conditions",
                                            <<>>))
                  ELSE IF ConditionsStr(in.conditions) = <<>>
                  THEN PrintedInTry(Outcome(None,
                                            "No valid conditions found",
                                            <<>>))
                  ELSE Caught(_parse_logic_rule(RawRule(in)))
             ELSE IF rule_type = RT_MATCH
             THEN IF action = <<>>
                  THEN PrintedInTry(Outcome(None,
                                            "Missing action for MATCH rule",
                                            <<>>))
                  ELSE Caught(_parse_match_rule(RawRule(in)))
             ELSE IF in.payload = <<>>
                  THEN PrintedInTry(Outcome(None,
                                            "Missing payload for rule type",
                                            rule_type))
                  ELSE Caught(_parse_regular_rule(RawRule(in)))

\* the private parser parse_rule_dict hands the built line to
DictRoute(in) ==
    IF upper(in.type) \in {RT_AND, RT_OR, RT_NOT} THEN "logic"
    ELSE IF upper(in.type) = RT_MATCH THEN "match"
    ELSE "regular"

(***************************************************************************)
(* condition_string of the three rule classes, and the rendering of the    *)
(* whole rule line.                                                        *)
(***************************************************************************)
RECURSIVE condition_string(_)
condition_string(rule) ==
    IF rule.variant = "ClashRule"
    THEN rule.rule_type \o <<",">> \o rule.payload
    ELSE IF rule.variant = "LogicRule"
    THEN LET RECURSIVE Wrapped(_)
             Wrapped(cs) ==
                 IF cs = <<>> THEN <<>>
                 ELSE <<(<<"(">> \o condition_string(Head(cs)) \o <<")">>)>>
                      \o Wrapped(Tail(cs))
         IN  rule.logic_type \o <<",", "(">>
             \o Join(<<",">>, Wrapped(rule.conditions)) \o <<")">>
    ELSE RT_MATCH

\* The serializer of the whole line: the condition string, the action and
\* the qualifiers, joined by commas.
render(rule) ==
    condition_string(rule) \o <<",">> \o rule.action.value
    \o (IF rule.variant = "ClashRule" /\ rule.additional_params # <<>>
        THEN <<",">> \o Join(<<",">>, rule.additional_params)
        ELSE <<>>)

(***************************************************************************)
(* The inputs.  A text line is put together from pieces drawn from small   *)
(* pools (shape records the pieces, input.text is their concatenation);    *)
(* a dict is drawn field by field.                                         *)
(***************************************************************************)
MaxFields == 2

MaxPieces == 3

MaxConds == 2

MaxGroups == 2

\* the start of a line of comma-separated fields, by the kind it names:
\* "UID,"  "uid,"  "\tUID ,"
SimplePrefixes == {
    <<"U","I","D",",">>,
    <<"u","i","d",",">>,
    <<"\t","U","I","D"," ",",">>}

\* "FOO,"  "foo ,"
UnknownPrefixes == {
    <<"F","O","O",",">>,
    <<"f","o","o"," ",",">>}

\* "MATCH,"  "Match,"  "\tmatch,"
MatchPrefixes == {
    <<"M","A","T","C","H",",">>,
    <<"M","a","t","c","h",",">>,
    <<"\t","m","a","t","c","h",",">>}

\* "MATCH ,"  "AND,"  "and,"  ""
OtherPrefixes == {
    <<"M","A","T","C","H"," ",",">>,
    <<"A","N","D",",">>,
    <<"a","n","d",",">>,
    <<>>}

KindPrefixes ==
    SimplePrefixes \cup UnknownPrefixes \cup MatchPrefixes \cup OtherPrefixes

\* the fields after it:  "x"  " x y\t"  "PASS"  "pass"  "Px"  ""  " "
FieldPool == {
    <<"x">>,
    <<" ","x"," ","y","\t">>,
    <<"P","A","S","S">>,
    <<"p","a","s","s">>,
    <<"P","x">>,
    <<>>,
    <<" ">>}

\* the start of a logic line, up to the parenthesis that opens the body:
\* "AND,("  "OR,\t( "  "NOT,("
OpenHeads == {
    <<"A","N","D",",","(">>,
    <<"O","R",",","\t","("," ">>,
    <<"N","O","T",",","(">>}

\* and without that parenthesis:  "NOT,"
LogicHeads == OpenHeads \cup {<<"N","O","T",",">>}

\* condition groups (kind,payload), kind a value of RuleType as written,
\* no parenthesis in the payload:  "(UID,x)"  "(MATCH,x)"
GoodGroups == {
    <<"(","U","I","D",",","x",")">>,
    <<"(","M","A","T","C","H",",","x",")">>}

\* condition groups the decomposer accepts after upper() and strip(), or
\* with a parenthesized payload:  "( uid , x y )"  "(NOT,(x))"
LooseGroups == {
    <<"("," ","u","i","d"," ",","," ","x"," ","y"," ",")">>,
    <<"(","N","O","T",",","(","x",")",")">>}

\* groups that are no condition:  "(FOO,x)"  "(UID)"
BadGroups == {
    <<"(","F","O","O",",","x",")">>,
    <<"(","U","I","D",")">>}

\* a separating comma and unpaired parentheses:  ","  "("  ")"
StrayPieces == {
    <<",">>,
    <<"(">>,
    <<")">>}

\* the end of a logic line, from the parenthesis that closes the body, with
\* an action:  "),PASS\n"  ") ,\tpass"  "),Px"
ActionTails == {
    <<")",",","P","A","S","S","\n">>,
    <<")"," ",",","\t","p","a","s","s">>,
    <<")",",","P","x">>}

\* and with no action or with two fields after the body:  ")"  "),PASS,x"
LogicTails == ActionTails \cup {
    <<")">>,
    <<")",",","P","A","S","S",",","x">>}

\* the "type" of a dict:  "AND"  "or"  " AND"  "MATCH"  " match"  "UID"
\* "uid"  "FOO"  ""
DictTypes == {
    <<"A","N","D">>,
    <<"o","r">>,
    <<" ","A","N","D">>,
    <<"M","A","T","C","H">>,
    <<" ","m","a","t","c","h">>,
    <<"U","I","D">>,
    <<"u","i","d">>,
    <<"F","O","O">>,
    <<>>}

\* the "action" of a dict:  "PASS"  "Px "  ""
DictActions == {
    <<"P","A","S","S">>,
    <<"P","x"," ">>,
    <<>>}

\* the "payload" of a dict:  "x"  ""
DictPayloads == {
    <<"x">>,
    <<>>}

\* the "additional_params" of a dict:  []  ["q"]
DictParams == {<<>>, << <<"q">> >>}

\* the entries of "conditions": {"type": "UID", "payload": "x"},
\* {"type": "FOO", "payload": "x"}, {"type": "UID"}, "(UID,x)", ",", 3
CondPool == {
    [form |-> "dict", type |-> <<"U","I","D">>, payload |-> <<"x">>],
    [form |-> "dict", type |-> <<"F","O","O">>, payload |-> <<"x">>],
    [form |-> "dict", type |-> <<"U","I","D">>, payload |-> <<>>],
    [form |-> "str", text |-> <<"(","U","I","D",",","x",")">>],
    [form |-> "str", text |-> <<",">>],
    [form |-> "other"]}

GroupPool == GoodGroups \cup LooseGroups \cup BadGroups \cup StrayPieces

\* the sequences over S of length at most n
SeqsUpTo(S, n) == UNION {[1..k -> S] : k \in 0..n}

RECURSIVE Concat(_)
Concat(pieces) ==
    IF pieces = <<>> THEN <<>> ELSE Head(pieces) \o Concat(Tail(pieces))

\* qualifiers at the end of a line of fields: none, or "src", "q" and "r"
QualifierTails == {<<>>, << <<"s","r","c">>, <<"q">>, <<"r">> >>}

FieldShapes ==
    {[family |-> "fields", prefix |-> p, fields |-> f \o q] :
        p \in KindPrefixes, f \in SeqsUpTo(FieldPool, MaxFields),
        q \in QualifierTails}

LogicShapes ==
    {[family |-> "logic", head |-> h, pieces |-> g, tail |-> t] :
        h \in LogicHeads, g \in SeqsUpTo(GroupPool, MaxPieces),
        t \in LogicTails}

\* the groups of the logic lines without an unpaired parenthesis:
\* "(UID,x)"  "(MATCH,x)"  "( uid , x y )"  "(NOT,(x))"  "(FOO,x)"
LineGroups == GoodGroups \cup LooseGroups \cup {<<"(","F","O","O",",","x",")">>}

RECURSIVE Interleave(_, _)
\* the groups with sep between every two of them
Interleave(groups, sep) ==
    IF Len(groups) <= 1 THEN groups
    ELSE <<Head(groups)>> \o sep \o Interleave(Tail(groups), sep)

\* the groups follow each other directly, or with a comma between them
LineLogicShapes ==
    {[family |-> "logic", head |-> h, pieces |-> Interleave(g, s), tail |-> t] :
        h \in LogicHeads, g \in SeqsUpTo(LineGroups, MaxGroups),
        s \in {<<>>, << <<",">> >>}, t \in LogicTails}

\* the text of a shape
TextOf(sh) ==
    IF sh.family = "fields" THEN sh.prefix \o Join(<<",">>, sh.fields)
    ELSE sh.head \o Concat(sh.pieces) \o sh.tail

\* the dicts: "type" holds a str (type_form = "str", type the str, <<>> also
\* for a missing key) or a value that has no upper(), such as None or a
\* number (type_form = "no_upper"); a bytes, which has one, is not drawn.
\* "conditions" and "additional_params" hold a list (<<>> also for a missing
\* key) or a value that is no list, such as a str, a dict or None
\* (conditions_form, params_form = "other", the field then <<>>).  The other
\* values are strs.
DictInputs ==
    {[form |-> "dict", type_form |-> "str", type |-> t, action |-> a,
      payload |-> p, conditions_form |-> "list", conditions |-> c,
      params_form |-> "list", additional_params |-> q] :
        t \in DictTypes, a \in DictActions, p \in DictPayloads,
        c \in SeqsUpTo(CondPool, MaxConds), q \in DictParams}
    \cup
    {[form |-> "dict", type_form |-> "no_upper", type |-> <<>>, action |-> a,
      payload |-> p, conditions_form |-> "list", conditions |-> <<>>,
      params_form |-> "list", additional_params |-> <<>>] :
        a \in DictActions, p \in DictPayloads}
    \cup
    {[form |-> "dict", type_form |-> "str", type |-> t, action |-> a,
      payload |-> p, conditions_form |-> cf, conditions |-> <<>>,
      params_form |-> pf, additional_params |-> <<>>] :
        t \in DictTypes, a \in DictActions, p \in DictPayloads,
        cf \in {"list", "other"}, pf \in {"list", "other"}}

NoShape == [family |-> "none"]

NoResult == Outcome(None, "not called", <<>>)

\* the values of the variables of a caller that does not run
NoCall ==
    /\ input = [form |-> "other"]
    /\ shape = NoShape
    /\ pc = "none"
    /\ path = "none"
    /\ result = NoResult
    /\ rendered = <<>>

NoBatch == batch = <<>> /\ outcomes = <<>>

NoThreads == calls = <<>> /\ frames = <<>>

NoScan ==
    /\ scan_str = <<>>
    /\ scan_pos = 0
    /\ scan = ScanInit
    /\ scan_char = ""
    /\ scan_before = ScanInit

(***************************************************************************)
(* The state machine: a caller holds an input, calls one of the two entry  *)
(* points on it, and may serialize the rule it got back.  sys.stdout is    *)
(* open, or has been closed.                                               *)
(***************************************************************************)
Init ==
    /\ rules = <<>>
    /\ stdout \in {"open", "closed"}
    /\ \/ \E sh \in FieldShapes \cup LogicShapes :
            /\ shape = sh
            /\ input = [form |-> "str", text |-> TextOf(sh)]
       \/ /\ shape = NoShape
          /\ input \in DictInputs
       \/ /\ shape = NoShape
          /\ input = [form |-> "other"]
    /\ pc = "start"
    /\ path = "none"
    /\ result = NoResult
    /\ rendered = <<>>
    /\ NoBatch
    /\ NoThreads
    /\ NoScan

\* ClashRuleParser.parse_rule_line(input)
ParseRuleLine ==
    /\ pc = "start"
    /\ result' = parse_rule_line(input)
    /\ path' = IF input.form = "str" /\ strip(input.text) # <<>>
               THEN Route(strip(input.text)) ELSE "none"
    /\ pc' = "parse_rule_line"
    /\ UNCHANGED <<rules, stdout, input, shape, rendered, batchVars,
                   threadVars, scanVars>>

\* ClashRuleParser.parse_rule_dict(input)
ParseRuleDict ==
    /\ pc = "start"
    /\ result' = parse_rule_dict(input)
    /\ path' = IF input.form = "str" /\ strip(input.text) # <<>>
               THEN Route(strip(input.text))
               ELSE IF input.form = "dict"
                       /\ parse_rule_dict(input).diag.what
                            \notin {AttributeError.what,
                                    ClosedFile.what,
                                    "Missing 'type' in rule dict",
                                    "Expected list of conditions",
                                    "No valid conditions found",
                                    "Missing action for MATCH rule",
                                    "Missing payload for rule type"}
               THEN DictRoute(input) ELSE "none"
    /\ pc' = "parse_rule_dict"
    /\ UNCHANGED <<rules, stdout, input, shape, rendered, batchVars,
                   threadVars, scanVars>>

\* the callers that hold a text line
LineInit ==
    /\ rules = <<>>
    /\ stdout \in {"open", "closed"}
    /\ \E sh \in FieldShapes \cup LineLogicShapes :
         /\ shape = sh
         /\ input = [form |-> "str", text |-> TextOf(sh)]
    /\ pc = "start"
    /\ path = "none"
    /\ result = NoResult
    /\ rendered = <<>>
    /\ NoBatch
    /\ NoThreads
    /\ NoScan

\* rule.condition_string() on the rule returned
ConditionString ==
    /\ pc \in {"parse_rule_line", "parse_rule_dict"}
    /\ IsRule(result.value)
    /\ rendered' = condition_string(result.value)
    /\ pc' = "condition_string"
    /\ UNCHANGED <<rules, stdout, input, shape, path, result, batchVars,
                   threadVars, scanVars>>

\* the whole line of the rule returned
Render ==
    /\ pc \in {"parse_rule_line", "parse_rule_dict"}
    /\ IsRule(result.value)
    /\ rendered' = render(result.value)
    /\ pc' = "render"
    /\ UNCHANGED <<rules, stdout, input, shape, path, result, batchVars,
                   threadVars, scanVars>>

Next == ParseRuleLine \/ ParseRuleDict \/ ConditionString \/ Render

Spec == Init /\ [][Next]_vars

LineSpec == LineInit /\ [][Next]_vars

(***************************************************************************)
(* A caller parses a batch: it calls an entry point on one input after     *)
(* the other and collects what each call returns.  An exception that       *)
(* leaves a call leaves the loop of the caller too.                        *)
(***************************************************************************)
MaxBatch == 3

\* inputs that hold a rule: "UID,x,PASS", "AND,((UID,x)(FOO,x)),Px" and
\* {"type": "match", "action": "PASS"}
BatchGood == {
    [form |-> "str", text |-> <<"U","I","D",",","x",",","P","A","S","S">>],
    [form |-> "str",
     text |-> <<"A","N","D",",","(","(","U","I","D",",","x",")",
                "(","F","O","O",",","x",")",")",",","P","x">>],
    [form |-> "dict", type_form |-> "str", type |-> <<"m","a","t","c","h">>,
     action |-> <<"P","A","S","S">>, payload |-> <<>>,
     conditions_form |-> "list", conditions |-> <<>>,
     params_form |-> "list", additional_params |-> <<>>]}

\* inputs that hold none: "FOO,x,x", " ", a value that is neither a str nor
\* a dict, and {"type": None, "action": "PASS"}
BatchBad == {
    [form |-> "str", text |-> <<"F","O","O",",","x",",","x">>],
    [form |-> "str", text |-> <<" ">>],
    [form |-> "other"],
    [form |-> "dict", type_form |-> "no_upper", type |-> <<>>,
     action |-> <<"P","A","S","S">>, payload |-> <<>>,
     conditions_form |-> "list", conditions |-> <<>>,
     params_form |-> "list", additional_params |-> <<>>]}

\* the batch before the first call; sys.stdout may have been closed
BatchInit ==
    /\ rules = <<>>
    /\ stdout \in {"open", "closed"}
    /\ NoCall
    /\ batch \in SeqsUpTo(BatchGood \cup BatchBad, MaxBatch)
    /\ outcomes = <<>>
    /\ NoThreads
    /\ NoScan

\* the call of the entry point named entry on the value in
CallOf(entry, in) ==
    IF entry = "parse_rule_line" THEN parse_rule_line(in)
    ELSE parse_rule_dict(in)

\* an exception has left the call
Propagates(o) == o.value.variant \in Exceptions

\* one turn of the loop of the caller, on the next input of the batch
BatchCall(entry) ==
    /\ pc = "none"
    /\ Len(outcomes) < Len(batch)
    /\ LET o == CallOf(entry, batch[Len(outcomes) + 1])
       IN  IF Propagates(o)
           THEN /\ pc' = "aborted"
                /\ outcomes' = outcomes
           ELSE /\ pc' = pc
                /\ outcomes' = Append(outcomes, [call |-> entry, outcome |-> o])
    /\ UNCHANGED <<rules, stdout, input, shape, path, result, rendered, batch,
                   threadVars, scanVars>>

BatchParseLine == BatchCall("parse_rule_line")

BatchParseDict == BatchCall("parse_rule_dict")

BatchNext == BatchParseLine \/ BatchParseDict

BatchSpec == BatchInit /\ [][BatchNext]_vars

(***************************************************************************)
(* Threads call the entry points without synchronization.  A call that     *)
(* reaches _parse_logic_conditions runs its for loop one character at a    *)
(* time, and the threads interleave between any two iterations; the other  *)
(* calls take one step.  Each call has its own locals conditions, stack    *)
(* and current.                                                            *)
(***************************************************************************)
MaxThreads == 2

ThreadIds == 1..MaxThreads

\* The inputs of the threads.  The threads run the same code, so they are
\* handed their inputs in the order of this list (a thread never holds an
\* input that comes before the one of the thread before it).
\* "AND,((UID,x)),Px", "UID,x,PASS" and
\* {"type": "not", "conditions": [")", {"type": "DSCP", "payload": "4"}],
\*  "action": "PASS"}
ThreadInputs == <<
    [form |-> "str",
     text |-> <<"A","N","D",",","(","(","U","I","D",",","x",")",")",",",
                "P","x">>],
    [form |-> "str", text |-> <<"U","I","D",",","x",",","P","A","S","S">>],
    [form |-> "dict", type_form |-> "str", type |-> <<"n","o","t">>,
     action |-> <<"P","A","S","S">>, payload |-> <<>>,
     conditions_form |-> "list",
     conditions |-> <<[form |-> "str", text |-> <<")">>],
                      [form |-> "dict", type |-> <<"D","S","C","P">>,
                       payload |-> <<"4">>]>>,
     params_form |-> "list", additional_params |-> <<>>] >>

\* the frame that holds the locals of the scan of thread t
FrameOf_shared(t) == 1

FrameOf(t) == t

\* the line the call hands to _parse_logic_rule, <<>> when it hands none
LogicLineOf(entry, in) ==
    IF in.form = "str"
    THEN IF strip(in.text) # <<>> /\ Route(strip(in.text)) = "logic"
         THEN strip(in.text) ELSE <<>>
    ELSE IF /\ entry = "parse_rule_dict"
            /\ in.form = "dict"
            /\ in.type_form = "str"
            /\ upper(in.type) \in {RT_AND, RT_OR, RT_NOT}
            /\ in.conditions_form = "list"
            /\ ConditionsStr(in.conditions) # <<>>
    THEN RawRule(in)
    ELSE <<>>

\* _parse_logic_rule from the frame _parse_logic_conditions ended with, on
_parse_logic_rule_from(line, frame) ==
    LET match == LogicMatch(strip(line))
    IN  IF frame.raised THEN ValueError("Invalid logic rule", line)
        ELSE LogicRule(upper(match.g1), frame.conditions,
                       ResolveAction(strip(match.g3)), line)

ThreadInit ==
    /\ rules = <<>>
    /\ stdout \in {"open", "closed"}
    /\ NoCall
    /\ NoBatch
    /\ \E k \in [ThreadIds -> DOMAIN ThreadInputs] :
         /\ \A t \in ThreadIds \ {1} : k[t - 1] <= k[t]
         /\ calls = [t \in ThreadIds |->
                       [input |-> ThreadInputs[k[t]], entry |-> "none",
                        pc |-> "idle", line |-> <<>>, conditions_str |-> <<>>,
                        i |-> 0, overlapped |-> FALSE, result |-> NoResult,
                        rendered |-> <<>>]]
    /\ frames = [t \in ThreadIds |-> ScanInit]
    /\ NoScan

\* thread t calls an entry point: up to the start of the for loop of
\* _parse_logic_conditions, or to the return when the call has no scan
ThreadCall(t) ==
    /\ calls[t].pc = "idle"
    /\ \E entry \in {"parse_rule_line", "parse_rule_dict"} :
         /\ LET line == LogicLineOf(entry, calls[t].input)
            IN  IF line # <<>> /\ LogicMatch(strip(line)).ok
                THEN /\ calls' = [calls EXCEPT ![t] =
                                   [@ EXCEPT !.entry = entry,
                                             !.pc = "scan",
                                             !.line = line,
                                             !.conditions_str =
                                                 strip(LogicMatch(strip(line)).g2)]]
                     /\ frames' = [frames EXCEPT ![FrameOf(t)] = ScanInit]
                ELSE /\ calls' = [calls EXCEPT ![t] =
                                   [@ EXCEPT !.entry = entry,
                                             !.pc = "returned",
                                             !.result =
                                                 CallOf(entry, calls[t].input)]]
                     /\ frames' = frames
    /\ UNCHANGED <<rules, stdout, callVars, batchVars, scanVars>>

\* some other thread is in the middle of its for loop
OthersScanning(t) ==
    \E u \in ThreadIds \ {t} :
        /\ calls[u].pc = "scan"
        /\ calls[u].i > 0
        /\ calls[u].i < Len(calls[u].conditions_str)

\* one iteration of the for loop of thread t
ThreadScan(t) ==
    /\ calls[t].pc = "scan"
    /\ calls[t].i < Len(calls[t].conditions_str)
    /\ ~frames[FrameOf(t)].raised
    /\ frames' = [frames EXCEPT ![FrameOf(t)] =
                     ScanStep(@, calls[t].conditions_str[calls[t].i + 1])]
    /\ calls' = [calls EXCEPT ![t] =
                   [@ EXCEPT !.i = @ + 1,
                             !.overlapped = @ \/ OthersScanning(t)]]
    /\ UNCHANGED <<rules, stdout, callVars, batchVars, scanVars>>

\* the for loop of thread t is over, by its end or by an exception: return
\* conditions or re-raise, and the call returns
ThreadReturn(t) ==
    /\ calls[t].pc = "scan"
    /\ \/ calls[t].i = Len(calls[t].conditions_str)
       \/ frames[FrameOf(t)].raised
    /\ calls' = [calls EXCEPT ![t] =
                   [@ EXCEPT !.pc = "returned",
                             !.result =
                                 Caught(_parse_logic_rule_from(
                                     calls[t].line,
                                     frames[FrameOf(t)]))]]
    /\ UNCHANGED <<rules, stdout, callVars, batchVars, frames, scanVars>>

\* thread t calls condition_string() on the rule it got
ThreadConditionString(t) ==
    /\ calls[t].pc = "returned"
    /\ IsRule(calls[t].result.value)
    /\ calls' = [calls EXCEPT ![t] =
                   [@ EXCEPT !.pc = "condition_string",
                             !.rendered = condition_string(calls[t].result.value)]]
    /\ UNCHANGED <<rules, stdout, callVars, batchVars, frames, scanVars>>

ThreadNext ==
    \E t \in ThreadIds :
        \/ ThreadCall(t)
        \/ ThreadScan(t)
        \/ ThreadReturn(t)
        \/ ThreadConditionString(t)

ThreadSpec == ThreadInit /\ [][ThreadNext]_vars

(***************************************************************************)
(* One call of _parse_logic_conditions, an iteration of its for loop at a  *)
(* time, on the texts put together from a few pieces.                      *)
(***************************************************************************)
MaxScanPieces == 5

ScanPieces == {
    <<"(">>,
    <<")">>,
    <<",">>,
    <<"x">>,
    <<"(","U","I","D",",","x",")">>}

\* conditions = [], stack = [], current = "" of a call on conditions_str
DecomposeInit ==
    /\ rules = <<>>
    /\ stdout \in {"open", "closed"}
    /\ NoCall
    /\ NoBatch
    /\ NoThreads
    /\ \E pieces \in SeqsUpTo(ScanPieces, MaxScanPieces) :
         scan_str = Concat(pieces)
    /\ scan_pos = 0
    /\ scan = ScanInit
    /\ scan_char = ""
    /\ scan_before = ScanInit

\* for char in conditions_str: one iteration
ScanIteration ==
    /\ scan_pos < Len(scan_str)
    /\ ~scan.raised
    /\ scan_char' = scan_str[scan_pos + 1]
    /\ scan_before' = scan
    /\ scan' = ScanStep(scan, scan_str[scan_pos + 1])
    /\ scan_pos' = scan_pos + 1
    /\ UNCHANGED <<rules, stdout, callVars, batchVars, threadVars, scan_str>>

DecomposeNext == ScanIteration

ScanSpec == DecomposeInit /\ [][DecomposeNext]_vars

(***************************************************************************)
(* What a shape says about its line, read off the pieces and not off the   *)
(* parser: its fields, and its canonical forms.                            *)
(***************************************************************************)
\* the kind token of a prefix: the prefix without its comma, trimmed
PrefixKind(prefix) ==
    IF prefix = <<>> THEN <<>> ELSE strip(SubSeq(prefix, 1, Len(prefix) - 1))

\* the non-empty trimmed fields of a line of fields
ShapeFields(sh) ==
    StripNonEmpty(<<PrefixKind(sh.prefix)>> \o sh.fields)

\* the groups of a logic shape, without the separating commas
RECURSIVE GroupsOf(_)
GroupsOf(pieces) ==
    IF pieces = <<>> THEN <<>>
    ELSE IF Head(pieces) = <<",">> THEN GroupsOf(Tail(pieces))
    ELSE <<Head(pieces)>> \o GroupsOf(Tail(pieces))

\* kind and payload of the condition a group of the pools stands for
GroupCondition(g) ==
    IF g = <<"(","U","I","D",",","x",")">>
    THEN [kind |-> <<"U","I","D">>, payload |-> <<"x">>]
    ELSE IF g = <<"(","M","A","T","C","H",",","x",")">>
    THEN [kind |-> RT_MATCH, payload |-> <<"x">>]
    ELSE IF g = <<"("," ","u","i","d"," ",","," ","x"," ","y"," ",")">>
    THEN [kind |-> <<"U","I","D">>, payload |-> <<"x"," ","y">>]
    ELSE [kind |-> RT_NOT, payload |-> <<"(","x",")">>]

\* the keyword of a logic head and the action text of a tail
HeadKind(head) == strip(split(head)[1])
TailAction(tail) == strip(split(tail)[2])

\* an action as the built-in lookup reads it
BuiltIn(a) == upper(a) \in Action

\* a line of the grammar: simple-rule, match-rule or logic-rule with the
\* groups separated by commas, with spaces allowed around the fields
WellFormed(sh) ==
    \/ /\ sh.family = "fields"
       /\ sh.prefix \in SimplePrefixes
       /\ Len(sh.fields) >= 2
       /\ \A i \in 1..Len(sh.fields) : strip(sh.fields[i]) # <<>>
    \/ /\ sh.family = "fields"
       /\ sh.prefix \in MatchPrefixes
       /\ Len(sh.fields) = 1
       /\ strip(sh.fields[1]) # <<>>
    \/ /\ sh.family = "logic"
       /\ sh.head \in OpenHeads
       /\ sh.tail \in ActionTails
       /\ Len(sh.pieces) >= 1
       /\ \A i \in 1..Len(sh.pieces) :
            IF i % 2 = 1 THEN sh.pieces[i] \in GoodGroups \cup LooseGroups
            ELSE sh.pieces[i] = <<",">>
       /\ Len(sh.pieces) % 2 = 1

RECURSIVE MapStrip(_)
MapStrip(fs) == IF fs = <<>> THEN <<>> ELSE <<strip(Head(fs))>> \o MapStrip(Tail(fs))

RECURSIVE GroupTexts(_, _)
\* the groups as "(kind,payload)", the kind upper-cased or as written
GroupTexts(gs, fold) ==
    IF gs = <<>> THEN <<>>
    ELSE LET c == GroupCondition(Head(gs))
             written == strip(split1(SubSeq(Head(gs), 2, Len(Head(gs)) - 1))[1])
         IN  <<(<<"(">> \o (IF fold THEN c.kind ELSE written) \o <<",">>
                \o c.payload \o <<")">>)>> \o GroupTexts(Tail(gs), fold)

\* The line of a well-formed shape with its whitespace normalized: every
\* field trimmed.  With fold, the keywords are normalized as well: the kind
\* tokens and a built-in action name are upper-cased.
Normalized(sh, fold) ==
    LET act(a) == IF fold /\ BuiltIn(strip(a)) THEN upper(strip(a)) ELSE strip(a)
        key(k) == IF fold THEN upper(k) ELSE k
    IN  IF sh.family = "fields"
        THEN IF sh.prefix \in MatchPrefixes
             THEN key(PrefixKind(sh.prefix)) \o <<",">> \o act(sh.fields[1])
             ELSE Join(<<",">>,
                       <<key(PrefixKind(sh.prefix)), strip(sh.fields[1]),
                         act(sh.fields[2])>>
                       \o MapStrip(SubSeq(sh.fields, 3, Len(sh.fields))))
        ELSE HeadKind(sh.head) \o <<",", "(">>
             \o Join(<<",">>, GroupTexts(GroupsOf(sh.pieces), fold))
             \o <<")", ",">> \o act(TailAction(sh.tail))

\* canonical_form: only whitespace normalized
WhitespaceForm(sh) == Normalized(sh, FALSE)

\* whitespace and the letter case of the keywords normalized
CanonicalForm(sh) == Normalized(sh, TRUE)

\* the call was parse_rule_line, or parse_rule_dict handing a str over to it
ParsedLine == pc \in {"parse_rule_line", "parse_rule_dict"} /\ input.form = "str"

(***************************************************************************)
(* C1.  Round trip.                                                        *)
(***************************************************************************)
\* C1 as stated: every well-formed line parses to a rule, and rendering the
\* rule gives back the line with only its whitespace normalized.
C1_RoundTripWhitespaceOnly ==
    /\ (ParsedLine /\ WellFormed(shape)) => IsRule(result.value)
    /\ (pc = "render" /\ input.form = "str" /\ WellFormed(shape))
         => rendered = WhitespaceForm(shape)

\* C1 amended: every well-formed line parses to a rule, and rendering the
\* rule gives back the line with its whitespace normalized and its keywords
\* (kind tokens, a built-in action name) in upper case.
C1_RoundTrip ==
    /\ (ParsedLine /\ WellFormed(shape)) => IsRule(result.value)
    /\ (pc = "render" /\ input.form = "str" /\ WellFormed(shape))
         => rendered = CanonicalForm(shape)

\* a logic line of two groups was parsed and rendered, and the rendering
\* differs from the text that was parsed
C1_Witness ==
    /\ pc = "render"
    /\ input.form = "str"
    /\ WellFormed(shape)
    /\ shape.family = "logic"
    /\ Len(shape.pieces) = 3
    /\ rendered = CanonicalForm(shape)
    /\ rendered # input.text

(***************************************************************************)
(* C2.  Structured-form equivalence.                                       *)
(***************************************************************************)
\* a rule without the text it was parsed from
WithoutRaw(rule) == [rule EXCEPT !.raw_rule = <<>>]

\* C2: parse_rule_dict on a dict with a type, a payload and an action, its
\* conditions and additional_params lists, gives
\* the outcome of parse_rule_line on the text line built from the fields of
\* the dict: the same rule (whatever its raw text) when both give one, and
\* otherwise no rule from either.
C2_StructuredEquivalence ==
    (/\ pc = "parse_rule_dict"
     /\ input.form = "dict"
     /\ input.type # <<>>
     /\ input.payload # <<>>
     /\ input.action # <<>>
     /\ input.conditions_form = "list"
     /\ input.params_form = "list")
      => LET line == parse_rule_line([form |-> "str", text |-> RawRule(input)])
         IN  IF IsRule(result.value) /\ IsRule(line.value)
             THEN WithoutRaw(result.value) = WithoutRaw(line.value)
             ELSE ~IsRule(result.value) /\ ~IsRule(line.value)

(***************************************************************************)
(* C3.  Lenient skip.                                                      *)
(***************************************************************************)
\* a logic line whose body is made of groups and separating commas only
GroupedLine(sh, groups) ==
    /\ sh.family = "logic"
    /\ sh.head \in OpenHeads
    /\ sh.tail \in ActionTails
    /\ \A i \in 1..Len(sh.pieces) : sh.pieces[i] \in groups \cup {<<",">>}

RECURSIVE ConditionsOf(_)
\* the conditions of the groups that are conditions, in their order
ConditionsOf(gs) ==
    IF gs = <<>> THEN <<>>
    ELSE IF Head(gs) \in BadGroups THEN ConditionsOf(Tail(gs))
    ELSE <<GroupCondition(Head(gs))>> \o ConditionsOf(Tail(gs))

\* the conditions of a LogicRule are simple rules of these kinds and payloads
HoldsConditions(rule, expected) ==
    /\ Len(rule.conditions) = Len(expected)
    /\ \A i \in 1..Len(expected) :
         /\ rule.conditions[i].variant = "ClashRule"
         /\ rule.conditions[i].rule_type = expected[i].kind
         /\ rule.conditions[i].payload = expected[i].payload
         /\ rule.conditions[i].additional_params = <<>>

HasBadGroup(sh) == \E i \in 1..Len(sh.pieces) : sh.pieces[i] \in BadGroups

\* C3: a logic line with a group that is no condition still parses to a
\* LogicRule; its conditions are those of the other groups, in their order.
C3_LenientSkip ==
    (/\ ParsedLine
     /\ GroupedLine(shape, GoodGroups \cup LooseGroups \cup BadGroups)
     /\ HasBadGroup(shape))
      => /\ result.value.variant = "LogicRule"
         /\ HoldsConditions(result.value, ConditionsOf(GroupsOf(shape.pieces)))

\* a line with a condition, a comma and a group of unknown kind was parsed
\* to a LogicRule of one condition
C3_Witness ==
    /\ ParsedLine
    /\ GroupedLine(shape, GoodGroups \cup LooseGroups \cup BadGroups)
    /\ Len(shape.pieces) = 3
    /\ shape.pieces[1] \in GoodGroups
    /\ shape.pieces[3] = <<"(","F","O","O",",","x",")">>
    /\ result.value.variant = "LogicRule"
    /\ Len(result.value.conditions) = 1

(***************************************************************************)
(* C4.  Rejection on the logic path.                                       *)
(***************************************************************************)
RECURSIVE CloseFrom(_, _, _)
\* the position of the ')' that closes the parenthesis opened before i,
\* depth parentheses being open at i; 0 when there is none
CloseFrom(s, i, depth) ==
    IF i > Len(s) THEN 0
    ELSE IF s[i] = "(" THEN CloseFrom(s, i + 1, depth + 1)
    ELSE IF s[i] = ")"
    THEN IF depth = 1 THEN i ELSE CloseFrom(s, i + 1, depth - 1)
    ELSE CloseFrom(s, i + 1, depth)

\* s is KIND,(BODY),ACTION: BODY runs from the first '(' after KIND to the
\* ')' that matches it, and ACTION is what follows, without a comma in it
HasLogicStructure(s) ==
    \E k \in {RT_AND, RT_OR, RT_NOT} :
      /\ startswith(s, k \o <<",">>)
      /\ LET after == strip(Slice(s, Len(k) + 2, Len(s)))
             close == CloseFrom(after, 2, 1)
             rest  == strip(Slice(after, close + 1, Len(after)))
         IN  /\ after # <<>>
             /\ after[1] = "("
             /\ close # 0
             /\ rest # <<>>
             /\ rest[1] = ","
             /\ CommasFrom(rest, 2) = <<>>
             /\ strip(Tail(rest)) # <<>>

\* C4: a line taken to the logic path that is not KIND,(BODY),ACTION gives
\* no rule and the diagnostic of an invalid logic rule format.
C4_LogicRejection ==
    (ParsedLine /\ path = "logic" /\ ~HasLogicStructure(strip(input.text)))
      => /\ ~IsRule(result.value)
         /\ result.diag.what = "Invalid logic rule format"

(***************************************************************************)
(* C5.  Result of the logic path.                                          *)
(***************************************************************************)
\* groups G1 .. Gn, n >= 1, with a comma or nothing between two of them
SeparatedGroups(pieces) ==
    /\ pieces # <<>>
    /\ pieces[1] # <<",">>
    /\ pieces[Len(pieces)] # <<",">>
    /\ \A i \in 1..(Len(pieces) - 1) :
         ~(pieces[i] = <<",">> /\ pieces[i + 1] = <<",">>)

\* C5: K,(G1 .. Gn),A with every Gi a (kind,payload) of a kind of RuleType
\* and a payload without parentheses parses to the LogicRule of kind K, of
\* the n conditions in their order and of the action A resolves to.
C5_LogicResult ==
    (/\ ParsedLine
     /\ GroupedLine(shape, GoodGroups)
     /\ SeparatedGroups(shape.pieces))
      => /\ result.value.variant = "LogicRule"
         /\ result.value.logic_type = HeadKind(shape.head)
         /\ HoldsConditions(result.value, ConditionsOf(GroupsOf(shape.pieces)))
         /\ Len(result.value.conditions) = Len(GroupsOf(shape.pieces))
         /\ result.value.action =
              IF BuiltIn(TailAction(shape.tail))
              THEN [enum |-> TRUE, value |-> upper(TailAction(shape.tail))]
              ELSE [enum |-> FALSE, value |-> TailAction(shape.tail)]

\* a line of two different conditions with nothing between them was parsed
\* to a LogicRule of these two conditions and a named action
C5_Witness ==
    /\ ParsedLine
    /\ GroupedLine(shape, GoodGroups)
    /\ Len(shape.pieces) = 2
    /\ shape.pieces[1] # shape.pieces[2]
    /\ result.value.variant = "LogicRule"
    /\ Len(result.value.conditions) = 2
    /\ result.value.conditions[1].rule_type # result.value.conditions[2].rule_type
    /\ ~result.value.action.enum

(***************************************************************************)
(* C6.  Result of the simple path.                                         *)
(***************************************************************************)
\* C6: a line of fields taken to the simple path, of at least 3 fields, the
\* first (read in upper case, as the lookup reads it) a value of RuleType,
\* parses to the ClashRule of that kind, of the second field as payload, of
\* the action the third field resolves to and of the remaining fields, in
\* their order, as additional_params; with fewer than 3 fields it gives no
\* rule.
C6_SimpleResult ==
    (ParsedLine /\ shape.family = "fields" /\ path = "regular")
      => LET f == ShapeFields(shape)
         IN  /\ (Len(f) >= 3 /\ upper(f[1]) \in RuleType)
                  => /\ result.value.variant = "ClashRule"
                     /\ result.value.rule_type = upper(f[1])
                     /\ result.value.payload = f[2]
                     /\ result.value.action =
                          IF BuiltIn(f[3])
                          THEN [enum |-> TRUE, value |-> upper(f[3])]
                          ELSE [enum |-> FALSE, value |-> f[3]]
                     /\ result.value.additional_params = SubSeq(f, 4, Len(f))
             /\ Len(f) < 3 => ~IsRule(result.value)

\* a line of a kind and a built-in action in lower case, a payload and
\* three different qualifiers was parsed to a ClashRule with these
\* qualifiers in their order
C6_Witness ==
    /\ ParsedLine
    /\ shape.family = "fields"
    /\ path = "regular"
    /\ Len(ShapeFields(shape)) = 6
    /\ ShapeFields(shape)[1] \notin RuleType
    /\ ShapeFields(shape)[3] \notin Action
    /\ result.value.variant = "ClashRule"
    /\ result.value.action.enum
    /\ result.value.additional_params = << <<"s","r","c">>, <<"q">>, <<"r">> >>

(***************************************************************************)
(* C7.  Unknown kinds.                                                     *)
(***************************************************************************)
\* C7: a line of fields taken to the simple path, of at least 3 fields,
\* whose kind token (read in upper case, as the lookup reads it) is no value
\* of RuleType gives no rule, and the diagnostic of an unknown rule type
\* with that token.
C7_UnknownKind ==
    (/\ ParsedLine
     /\ shape.family = "fields"
     /\ path = "regular"
     /\ Len(ShapeFields(shape)) >= 3
     /\ upper(ShapeFields(shape)[1]) \notin RuleType)
      => /\ ~IsRule(result.value)
         /\ result.diag = [what |-> "Unknown rule type",
                           token |-> upper(ShapeFields(shape)[1])]

\* a line of an unknown kind and three more fields was parsed
C7_Witness ==
    /\ ParsedLine
    /\ shape.family = "fields"
    /\ shape.prefix \in UnknownPrefixes
    /\ Len(ShapeFields(shape)) = 4
    /\ result.diag.what = "Unknown rule type"

(***************************************************************************)
(* C8.  The match path.                                                    *)
(***************************************************************************)
\* C8: a line that starts with MATCH, in any letter case is taken to the
\* match path; with one non-empty field after the keyword it parses to the
\* MatchRule of the action that field resolves to, and otherwise it gives
\* no rule and the diagnostic of an invalid MATCH rule format.
C8_MatchPath ==
    (ParsedLine /\ shape.family = "fields" /\ shape.prefix \in MatchPrefixes)
      => LET f == StripNonEmpty(shape.fields)
         IN  /\ path = "match"
             /\ Len(f) = 1
                  => /\ result.value.variant = "MatchRule"
                     /\ result.value.rule_type = RT_MATCH
                     /\ result.value.action =
                          IF BuiltIn(f[1])
                          THEN [enum |-> TRUE, value |-> upper(f[1])]
                          ELSE [enum |-> FALSE, value |-> f[1]]
             /\ Len(f) # 1
                  => /\ ~IsRule(result.value)
                     /\ result.diag.what = "Invalid MATCH rule format"

\* a line that starts with the keyword in mixed case and has an empty field
\* before its action was parsed to a MatchRule
C8_Witness ==
    /\ ParsedLine
    /\ shape.family = "fields"
    /\ shape.prefix \in MatchPrefixes
    /\ shape.prefix # RT_MATCH \o <<",">>
    /\ Len(shape.fields) = 2
    /\ path = "match"
    /\ result.value.variant = "MatchRule"

(***************************************************************************)
(* C9.  Dicts of a logic kind without a valid condition.                   *)
(***************************************************************************)
\* the entries of CondPool that are a condition: the dict of UID and x, and
\* the str "(UID,x)"
ValidEntry(c) ==
    \/ c = [form |-> "dict", type |-> <<"U","I","D">>, payload |-> <<"x">>]
    \/ c = [form |-> "str", text |-> <<"(","U","I","D",",","x",")">>]

\* C9: on a dict of type AND, OR or NOT, with an action, whose conditions
\* are a list that is empty or holds no entry that is a condition,
\* parse_rule_dict gives no rule and the diagnostic that no valid condition
\* was found.
C9_EmptyConditions ==
    (/\ pc = "parse_rule_dict"
     /\ input.form = "dict"
     /\ upper(input.type) \in {RT_AND, RT_OR, RT_NOT}
     /\ input.action # <<>>
     /\ input.conditions_form = "list"
     /\ \A i \in 1..Len(input.conditions) : ~ValidEntry(input.conditions[i]))
      => /\ ~IsRule(result.value)
         /\ result.diag.what = "No valid conditions found"

(***************************************************************************)
(* C10.  Kinds of the simple rules.                                        *)
(***************************************************************************)
\* the simple rules of a returned value: the rule itself, or the conditions
\* of a logic rule
SimpleRulesOf(v) ==
    IF v.variant = "ClashRule" THEN {v}
    ELSE IF v.variant = "LogicRule"
    THEN {v.conditions[i] : i \in 1..Len(v.conditions)}
    ELSE {}

\* C10: no ClashRule returned, or held as a condition of a LogicRule
\* returned, is of kind AND, OR, NOT or MATCH.
C10_SimpleKind ==
    pc \in {"parse_rule_line", "parse_rule_dict"}
      => \A r \in SimpleRulesOf(result.value) :
            r.rule_type \notin {RT_AND, RT_OR, RT_NOT, RT_MATCH}

(***************************************************************************)
(* C11.  The conditions of the logic rules.                                *)
(***************************************************************************)
\* C11: every LogicRule returned by parse_rule_line or parse_rule_dict holds
\* at least one condition.
C11_NonEmptyConditions ==
    (pc \in {"parse_rule_line", "parse_rule_dict"}
       /\ result.value.variant = "LogicRule")
      => result.value.conditions # <<>>

(***************************************************************************)
(* C12.  Batches.                                                          *)
(***************************************************************************)
\* C12: while a batch is parsed no exception leaves a call, and the
\* outcomes collected are, in the order of the inputs, one per input taken:
\* the i-th is what the call made returns on the i-th input alone, no rule
\* for an input that holds none, and a rule for an input that holds one
\* when parse_rule_dict, which takes both shapes, was called.
C12_BatchIndependence ==
    /\ pc # "aborted"
    /\ Len(outcomes) <= Len(batch)
    /\ \A i \in 1..Len(outcomes) :
         /\ outcomes[i].outcome = CallOf(outcomes[i].call, batch[i])
         /\ ~Propagates(outcomes[i].outcome)
         /\ batch[i] \in BatchBad => ~IsRule(outcomes[i].outcome.value)
         /\ (batch[i] \in BatchGood /\ outcomes[i].call = "parse_rule_dict")
              => IsRule(outcomes[i].outcome.value)

(***************************************************************************)
(* C13.  Threads.                                                          *)
(***************************************************************************)
\* C13: under every interleaving of the calls of the threads, a call that
\* has returned has returned what the same call returns alone, a
\* condition_string() has given the condition string of that rule, and
\* self.rules is as __init__ left it.
C13_ConcurrentCalls ==
    /\ rules = <<>>
    /\ \A t \in DOMAIN calls :
         LET alone == CallOf(calls[t].entry, calls[t].input)
         IN  /\ calls[t].pc \in {"returned", "condition_string"}
                  => calls[t].result = alone
             /\ calls[t].pc = "condition_string"
                  => calls[t].rendered = condition_string(alone.value)

\* two threads have scanned different texts at the same time, and each has
\* returned the LogicRule of its own condition
C13_Witness ==
    /\ calls # <<>>
    /\ calls[1].overlapped
    /\ calls[2].overlapped
    /\ calls[1].pc = "returned"
    /\ calls[2].pc = "condition_string"
    /\ calls[1].conditions_str # calls[2].conditions_str
    /\ calls[1].result.value.variant = "LogicRule"
    /\ calls[2].result.value.variant = "LogicRule"
    /\ Len(calls[1].result.value.conditions) = 1
    /\ Len(calls[2].result.value.conditions) = 1
    /\ calls[1].result.value.conditions # calls[2].result.value.conditions

(***************************************************************************)
(* C14.  The scan of _parse_logic_conditions.                              *)
(***************************************************************************)
\* C14: after every iteration of the scan the stack holds no fewer than 0
\* parentheses and current is empty whenever the stack is; an iteration on
\* a ')' or on any character other than '(' met with an empty stack leaves
\* conditions, stack and current as they were.
C14_ScanInvariant ==
    /\ scan_pos <= Len(scan_str)
    /\ scan.stack >= 0
    /\ scan.stack = 0 => scan.current = <<>>
    /\ (scan_pos > 0 /\ scan_before.stack = 0 /\ scan_char # "(")
         => scan = scan_before

\* a ')' was met with an empty stack after a condition had been found, the
\* state of the scan is as before, and the text goes on
C14_Witness ==
    /\ scan_pos > 0
    /\ scan_pos < Len(scan_str)
    /\ scan_char = ")"
    /\ scan_before.stack = 0
    /\ scan_before.conditions # <<>>
    /\ scan = scan_before

====
